---- MODULE Spec2Model ----
(***************************************************************************)
(* A model of file-counter (src/src/main.rs): the recursive file counter    *)
(* count_files, the shared count cache, the worker pool and its result      *)
(* channel, and the listing / sort / selection / navigation logic of App    *)
(* and of the main loop.                                                    *)
(*                                                                          *)
(* Names are strings; to_lowercase and the byte-wise string comparison are  *)
(* computed on their bytes. Paths are sequences of names (the components    *)
(* below the filesystem root).                                              *)
(***************************************************************************)
EXTENDS Integers, Sequences, FiniteSets, TLC

VARIABLES
    fs,                 \* the filesystem the process runs on
    file_count_cache,   \* App.file_count_cache : path -> count (a set of pairs' function)
    queue,              \* ThreadPool: jobs submitted and not yet started (FIFO)
    workers,            \* ThreadPool: what each worker thread is doing
    channel,            \* the mpsc channel file_count_tx -> file_count_rx
    current_dir,        \* App.current_dir
    current_dir_count,  \* App.current_dir_count : Option<usize>
    items,              \* App.items : Vec<DirEntry>
    selected,           \* App.table_state.selected() : Option<usize>
    action_pending,     \* App.action_pending : Option<Action>
    redraw_ui,          \* main: redraw_ui
    entries,            \* refresh_items: the entries of `for entry in entries` still to come
    input_left,         \* the terminal: the key and mouse events event::read() has yet to return
    pc,                 \* main: "tick" at the top of the loop body, "input" at event::poll,
                        \* "refresh_.." at the next step of refresh_items
    status,             \* the process: running, quit (break), refresh_error / poll_error /
                        \* draw_error (main returned the Err), panic
    last_call,          \* what the main thread is doing or did last (observation only)
    drain_log,          \* the paths whose message the drain has written into what is
                        \* shown, and those whose message it has dropped (observation only)
    c_root,             \* count_files: the argument dir
    c_stack,            \* count_files: dirs_to_visit
    c_visited,          \* count_files: visited
    c_count,            \* count_files: count
    c_pc                \* count_files: "loop" while the while-let runs, "done" after Ok(count)

vars == <<fs, file_count_cache, queue, workers, channel, current_dir,
          current_dir_count, items, selected, action_pending, redraw_ui, entries,
          input_left, pc, status, last_call, drain_log, c_root, c_stack, c_visited, c_count, c_pc>>

\* What only the main thread reads and writes.
mainVars == <<current_dir, current_dir_count, items, selected, action_pending,
              redraw_ui, entries, input_left, pc, status, last_call, drain_log>>

appVars == <<file_count_cache, queue, workers, channel, current_dir,
             current_dir_count, items, selected, action_pending, redraw_ui, entries,
             input_left, pc, status, last_call, drain_log>>

countVars == <<c_root, c_stack, c_visited, c_count, c_pc>>

-----------------------------------------------------------------------------
(* Option<T>: None is a value outside T (an integer that no count and no    *)
(* index of the model takes).                                               *)

None == -(2^30)

\* No message drained yet.
NoLog == [merged |-> {}, dropped |-> {}]

IsSome(o) == o # None

-----------------------------------------------------------------------------
(* Names (String) and paths (PathBuf).                                      *)

Nm_a == "a"
Nm_A == "A"
Nm_B == "B"
Nm_c == "c"
Nm_d == "$d"
Nm_f == "f"
Nm_g == "g"
Nm_k == "k"
Nm_l == "l"
Nm_m == "m"
Nm_r == "r"
Nm_x == "x"
Nm_z == "z"

\* The name of the parent entry (main.rs 142).
BackName == ".. (Back to parent directory)"

\* str::as_bytes of the names above.
Bytes(s) ==
    CASE s = "a" -> <<97>>
      [] s = "A" -> <<65>>
      [] s = "B" -> <<66>>
      [] s = "c" -> <<99>>
      [] s = "$d" -> <<36, 100>>
      [] s = "f" -> <<102>>
      [] s = "g" -> <<103>>
      [] s = "k" -> <<107>>
      [] s = "l" -> <<108>>
      [] s = "m" -> <<109>>
      [] s = "r" -> <<114>>
      [] s = "x" -> <<120>>
      [] s = "z" -> <<122>>
      [] s = ".. (Back to parent directory)" ->
            <<46, 46, 32, 40, 66, 97, 99, 107, 32, 116, 111, 32, 112, 97, 114, 101,
              110, 116, 32, 100, 105, 114, 101, 99, 116, 111, 114, 121, 41>>

RootPath == << >>

\* Path::parent is Some: the path has a last component to drop.
HasParent(p) == Len(p) > 0

\* Path::parent, where it is Some: the path without its last component.
PathParent(p) == SubSeq(p, 1, Len(p) - 1)

\* Path::join of one component (DirEntry::path() is dir.join(file_name)).
PathJoin(p, n) == Append(p, n)

FileName(p) == p[Len(p)]

\* p is q or lies below q.
IsPrefix(q, p) == Len(q) <= Len(p) /\ SubSeq(p, 1, Len(q)) = q

\* LET x == e IN Body(x), with e evaluated once wherever it is used.
Bind(e, Body(_)) == CHOOSE r \in {Body(x) : x \in {e}} : TRUE

\* char::to_lowercase on the ASCII range.
LowerChar(c) == IF c >= 65 /\ c <= 90 THEN c + 32 ELSE c

\* str::to_lowercase, as the bytes of the lowered string.
to_lowercase(s) == Bind(Bytes(s), LAMBDA b : [i \in 1..Len(b) |-> LowerChar(b[i])])

RECURSIVE StrCmpFrom(_, _, _)
StrCmpFrom(a, b, i) ==
    IF i > Len(a) /\ i > Len(b) THEN "Equal"
    ELSE IF i > Len(a) THEN "Less"
    ELSE IF i > Len(b) THEN "Greater"
    ELSE IF a[i] < b[i] THEN "Less"
    ELSE IF a[i] > b[i] THEN "Greater"
    ELSE StrCmpFrom(a, b, i + 1)

\* Ord::cmp on String: lexicographic on the bytes.
StrCmp(a, b) == StrCmpFrom(a, b, 1)

\* Ord::cmp on usize.
NumCmp(a, b) == IF a < b THEN "Less" ELSE IF a > b THEN "Greater" ELSE "Equal"

\* Ordering::then
OrdThen(o1, o2) == IF o1 = "Equal" THEN o2 ELSE o1

\* All the orders in which the elements of a finite set can be produced.
Perms(S) ==
    {s \in [1..Cardinality(S) -> S] : \A x \in S : \E i \in 1..Cardinality(S) : s[i] = x}

\* The beginnings, of every length, of those orders.
Prefixes(S) == UNION {{SubSeq(s, 1, k) : k \in 0..Len(s)} : s \in Perms(S)}

-----------------------------------------------------------------------------
(* The filesystem as the program sees it through std::fs and std::path.     *)
(*   dirs    real directories (canonical paths); the root is one of them    *)
(*   files   regular files (canonical paths)                                *)
(*   links   symbolic links: the link's own canonical path -> its target     *)
(*   noread  directories on which read_dir returns Err                      *)
(*   ioerr   directories whose ReadDir iterator yields an Err item: after   *)
(*           any number of its entries, and the iterator ends with it       *)

\* The longest chain of symbolic links canonicalize follows before it gives up.
ResolveFuel == 4

NoPath == [ok |-> FALSE, path |-> RootPath]

RECURSIVE ResolveFrom(_, _, _, _, _)
ResolveFrom(f, cur, p, i, fuel) ==
    IF i > Len(p) THEN [ok |-> TRUE, path |-> cur]
    ELSE IF cur \notin f.dirs THEN NoPath
    ELSE Bind(Append(cur, p[i]), LAMBDA cand :
         IF cand \in DOMAIN f.links
         THEN IF fuel = 0 THEN NoPath
              ELSE Bind(ResolveFrom(f, RootPath, f.links[cand], 1, fuel - 1), LAMBDA t :
                   IF t.ok THEN ResolveFrom(f, t.path, p, i + 1, fuel) ELSE NoPath)
         ELSE IF cand \in f.dirs \cup f.files
         THEN ResolveFrom(f, cand, p, i + 1, fuel)
         ELSE NoPath)

\* Path::canonicalize: the symlink-free form of an existing path, or Err.
canonicalize(f, p) == ResolveFrom(f, RootPath, p, 1, ResolveFuel)

\* Path::is_dir and Path::is_file follow symbolic links; false on any error.
is_dir(f, p) == Bind(canonicalize(f, p), LAMBDA c : c.ok /\ c.path \in f.dirs)

is_file(f, p) == Bind(canonicalize(f, p), LAMBDA c : c.ok /\ c.path \in f.files)

\* fs::read_dir(p): Err, or the names of the entries of the directory p resolves
\* to, and whether the iterator also yields an Err item.
read_dir(f, p) ==
    Bind(canonicalize(f, p), LAMBDA c :
    IF ~c.ok \/ c.path \notin f.dirs \/ c.path \in f.noread
    THEN [ok |-> FALSE, names |-> {}, entry_err |-> FALSE]
    ELSE [ok |-> TRUE,
          names |-> {FileName(q) : q \in {q \in f.dirs \cup f.files \cup DOMAIN f.links :
                                            Len(q) > 0 /\ PathParent(q) = c.path}},
          entry_err |-> c.path \in f.ioerr])

-----------------------------------------------------------------------------
(* count_files (main.rs 266-310).                                           *)

\* The for loop over the entries of real_dir, in the order ord.
RECURSIVE ScanEntries(_, _, _, _, _)
ScanEntries(f, real_dir, ord, i, st) ==
    IF i > Len(ord) THEN st
    ELSE Bind(PathJoin(real_dir, ord[i]), LAMBDA path :
         Bind(IF is_file(f, path) THEN [st EXCEPT !.count = @ + 1]
              ELSE IF is_dir(f, path) THEN [st EXCEPT !.stack = Append(@, path)]
              ELSE st,
              LAMBDA st2 : ScanEntries(f, real_dir, ord, i + 1, st2)))

\* The entries the for loop can see of the directory on top of the stack, in
\* order: all of them in any order, or, where the iterator yields an Err item,
\* those read before it (ReadDir ends at its first Err).
CountOrders(f, st) ==
    Bind(canonicalize(f, st.stack[Len(st.stack)]), LAMBDA c :
    IF c.ok
    THEN Bind(read_dir(f, c.path), LAMBDA rd :
              IF rd.entry_err THEN Prefixes(rd.names) ELSE Perms(rd.names))
    ELSE {<< >>})

\* CountStep with the visited set holding the paths as popped, not their
\* canonical form.
CountStepRawVisited(f, st, ord) ==
    Bind(st.stack[Len(st.stack)], LAMBDA top :
    Bind([st EXCEPT !.stack = SubSeq(@, 1, Len(@) - 1)], LAMBDA popped :
    Bind(canonicalize(f, top), LAMBDA c :
        IF ~c.ok THEN popped
        ELSE IF top \in st.visited THEN popped
        ELSE Bind([popped EXCEPT !.visited = @ \cup {top}], LAMBDA seen :
             IF ~read_dir(f, c.path).ok THEN seen
             ELSE ScanEntries(f, c.path, ord, 1, seen)))))

\* CountStep without the already-visited test.
CountStepNoVisited(f, st, ord) ==
    Bind(st.stack[Len(st.stack)], LAMBDA top :
    Bind([st EXCEPT !.stack = SubSeq(@, 1, Len(@) - 1)], LAMBDA popped :
    Bind(canonicalize(f, top), LAMBDA c :
        IF ~c.ok THEN popped
        ELSE Bind([popped EXCEPT !.visited = @ \cup {c.path}], LAMBDA seen :
             IF ~read_dir(f, c.path).ok THEN seen
             ELSE ScanEntries(f, c.path, ord, 1, seen)))))

\* One iteration of `while let Some(current_dir) = dirs_to_visit.pop()`.
CountStep(f, st, ord) ==
    Bind(st.stack[Len(st.stack)], LAMBDA top :
    Bind([st EXCEPT !.stack = SubSeq(@, 1, Len(@) - 1)], LAMBDA popped :
    Bind(canonicalize(f, top), LAMBDA c :
        IF ~c.ok THEN popped
        ELSE IF c.path \in st.visited THEN popped
        ELSE Bind([popped EXCEPT !.visited = @ \cup {c.path}], LAMBDA seen :
             IF ~read_dir(f, c.path).ok THEN seen
             ELSE ScanEntries(f, c.path, ord, 1, seen)))))

CountStart(dir) == [stack |-> <<dir>>, visited |-> {}, count |-> 0]

\* The counts the while-let loop can end with from st.
RECURSIVE CountLoop(_, _)
CountLoop(f, st) ==
    IF Len(st.stack) = 0 THEN {st.count}
    ELSE UNION {CountLoop(f, CountStep(f, st, ord)) : ord \in CountOrders(f, st)}

\* count_files(dir).unwrap_or(0): count_files returns Ok on every path; the
\* counts it can return on f (one, unless a listing fails midway).
count_files(f, dir) == CountLoop(f, CountStart(dir))

-----------------------------------------------------------------------------
(* DirEntry, the sort policy and refresh_items (main.rs 53-58, 90-240).     *)

DirEntry(name, path, isdir, file_count) ==
    [name |-> name, path |-> path, is_dir |-> isdir, file_count |-> file_count]

\* The comparator with the known counts in ascending order.
EntryCmpAscending(a, b) ==
    IF a.is_dir /\ b.is_dir
    THEN IF IsSome(a.file_count) /\ IsSome(b.file_count)
         THEN OrdThen(NumCmp(a.file_count, b.file_count),
                      StrCmp(to_lowercase(a.name), to_lowercase(b.name)))
         ELSE IF IsSome(a.file_count) THEN "Less"
         ELSE IF IsSome(b.file_count) THEN "Greater"
         ELSE StrCmp(to_lowercase(a.name), to_lowercase(b.name))
    ELSE IF ~a.is_dir /\ ~b.is_dir
         THEN StrCmp(to_lowercase(a.name), to_lowercase(b.name))
    ELSE IF a.is_dir THEN "Less"
    ELSE "Greater"

\* The closure given to sort_by (main.rs 202-217, and again 220-235, 367-382,
\* 385-400).
EntryCmp(a, b) ==
    IF a.is_dir /\ b.is_dir
    THEN IF IsSome(a.file_count) /\ IsSome(b.file_count)
         THEN OrdThen(NumCmp(b.file_count, a.file_count),
                      StrCmp(to_lowercase(a.name), to_lowercase(b.name)))
         ELSE IF IsSome(a.file_count) THEN "Less"
         ELSE IF IsSome(b.file_count) THEN "Greater"
         ELSE StrCmp(to_lowercase(a.name), to_lowercase(b.name))
    ELSE IF ~a.is_dir /\ ~b.is_dir
         THEN StrCmp(to_lowercase(a.name), to_lowercase(b.name))
    ELSE IF a.is_dir THEN "Less"
    ELSE "Greater"

\* x put in front of the elements equal to it: a sort that is not stable.
RECURSIVE InsertBeforeEqual(_, _, _)
InsertBeforeEqual(x, s, i) ==
    IF i > Len(s) THEN Append(s, x)
    ELSE IF EntryCmp(s[i], x) # "Less"
         THEN SubSeq(s, 1, i - 1) \o <<x>> \o SubSeq(s, i, Len(s))
         ELSE InsertBeforeEqual(x, s, i + 1)

\* x put into the sorted s behind every element that is not greater than it.
RECURSIVE InsertSorted(_, _, _)
InsertSorted(x, s, i) ==
    IF i > Len(s) THEN Append(s, x)
    ELSE IF EntryCmp(s[i], x) = "Greater"
         THEN SubSeq(s, 1, i - 1) \o <<x>> \o SubSeq(s, i, Len(s))
         ELSE InsertSorted(x, s, i + 1)

RECURSIVE SortFrom(_, _, _)
SortFrom(s, i, acc) ==
    IF i > Len(s) THEN acc
    ELSE Bind(InsertSorted(s[i], acc, 1), LAMBDA acc2 : SortFrom(s, i + 1, acc2))

\* slice::sort_by: a stable sort (an insertion sort on slices this short).
sort_by(s) == SortFrom(s, 1, << >>)

\* The re-sort of main with the whole listing sorted, the parent entry too.
ResortUnpinned(its, include_back) == sort_by(its)

\* "Sort items based on file count" (main.rs 199-237): the first entry is left
\* where it is when it is the parent entry and is not alone.
SortItems(its, include_back) ==
    IF include_back /\ Len(its) > 1
    THEN <<its[1]>> \o sort_by(Tail(its))
    ELSE sort_by(its)

\* "Re-sort items" (main.rs 362-402): the same code again.
ResortItems(its, include_back) ==
    IF include_back /\ Len(its) > 1
    THEN <<its[1]>> \o sort_by(Tail(its))
    ELSE sort_by(its)

\* App.home_dir: the start directory, never assigned after App::new.
home_dir == <<Nm_r>>

\* include_back with the test dropped.
IncludeBackAlways(cur) == TRUE

\* let include_back = self.current_dir != self.home_dir (main.rs 95, 364)
IncludeBack(cur) == cur # home_dir

\* DashMap::get(..).map(|v| *v)
CacheGet(cache, p) == IF p \in DOMAIN cache THEN cache[p] ELSE None

\* An insert that evicts every other entry.
CacheInsertEvicting(cache, p, n) == [q \in {p} |-> n]

\* DashMap::insert
CacheInsert(cache, p, n) ==
    [q \in DOMAIN cache \cup {p} |-> IF q = p THEN n ELSE cache[q]]

\* A job submitted whatever the lookup returned.
NeedsJobAlways(count) == TRUE

\* The test inverted: a job only for a path the cache already holds.
NeedsJobOnHit(count) == IsSome(count)

\* The test in front of each thread_pool.execute: the lookup missed
\* (main.rs 103, 126, 181).
NeedsJob(count) == ~IsSome(count)

\* The orders in which read_dir can return the entries of cur.
ReadOrders(f, cur) ==
    Bind(read_dir(f, cur), LAMBDA rd : IF rd.ok THEN Perms(rd.names) ELSE {<< >>})

\* The entry pushed for one name of the listing (main.rs 156-177): path.is_dir()
\* and, for a directory, the lookup in the cache as it is at that moment.
ListedEntry(f, cache, cur, n) ==
    Bind(PathJoin(cur, n), LAMBDA path :
    Bind(is_dir(f, path), LAMBDA isdir :
        DirEntry(n, path, isdir, IF isdir THEN CacheGet(cache, path) ELSE None)))

\* The jobs of the last loop of refresh_items (main.rs 179-197): one for every
\* directory row whose lookup missed, the parent entry's row too.
ItemJobs(its) ==
    Bind(SelectSeq(its, LAMBDA it : it.is_dir /\ NeedsJob(it.file_count)), LAMBDA miss :
         [i \in 1..Len(miss) |-> miss[i].path])

\* `if count.is_none() { self.thread_pool.execute(..) }` (main.rs 103-117,
\* 126-140): the queue, or a list of jobs, after it.
Execute(q, count, path) == IF NeedsJob(count) THEN Append(q, path) ELSE q

-----------------------------------------------------------------------------
(* Selection (main.rs 243-262) on usize. A usize v is held as the integer v *)
(* when v < 2^63 and as v - 2^64 when not (usize::MAX is -1, usize::MAX - 1 *)
(* is -2): subtraction modulo 2^64 is then the subtraction of integers, and *)
(* in the order of usize the negative integers come after the others.       *)

\* a - b in a release build (wrapping).
WrappingSub(a, b) == a - b

\* a < b on usize.
UsizeLt(a, b) == IF (a < 0) = (b < 0) THEN a < b ELSE b < 0

\* a - b overflows: a panic in a debug build.
SubOverflows(a, b) == UsizeLt(a, b)

\* App::next with the wrap to the first row dropped.
next_no_wrap(sel, len) == IF sel # None THEN sel + 1 ELSE 0

\* App::next: the new selection (items.len() - 1 is computed whenever a row is
\* selected).
next(sel, len) ==
    IF sel # None
    THEN IF ~UsizeLt(sel, WrappingSub(len, 1)) THEN 0 ELSE sel + 1
    ELSE 0

next_overflows(sel, len) == sel # None /\ SubOverflows(len, 1)

\* App::previous: the new selection (items.len() - 1 is computed when the first
\* row or no row is selected).
previous(sel, len) ==
    IF sel # None
    THEN IF sel = 0 THEN WrappingSub(len, 1) ELSE sel - 1
    ELSE WrappingSub(len, 1)

previous_overflows(sel, len) == (sel = None \/ sel = 0) /\ SubOverflows(len, 1)

-----------------------------------------------------------------------------
(* The filesystems count_files is run on: the real directories /, /r, /r/a  *)
(* and /x, any of three regular files, two symbolic links with any target   *)
(* (a directory, a file, the other link, a missing path; a link can point   *)
(* at its own ancestor), /r/a readable or not, /r with or without an        *)
(* entry that cannot be read.                                               *)

P_r == <<Nm_r>>
P_ra == <<Nm_r, Nm_a>>
P_x == <<Nm_x>>
P_rf == <<Nm_r, Nm_f>>
P_rag == <<Nm_r, Nm_a, Nm_g>>
P_xk == <<Nm_x, Nm_k>>
P_rl == <<Nm_r, Nm_l>>
P_ram == <<Nm_r, Nm_a, Nm_m>>
P_z == <<Nm_z>>

\* Stands for "this link does not exist" when a filesystem is put together.
Absent == <<"">>

MkLinks(tl, tm) ==
    [q \in {q \in {P_rl, P_ram} : (IF q = P_rl THEN tl ELSE tm) # Absent}
        |-> IF q = P_rl THEN tl ELSE tm]

LinkTargets == {Absent, P_r, P_ra, P_x, P_rf, P_rag, P_rl, P_ram, P_z}

CountWorlds ==
    {[dirs   |-> {RootPath, P_r, P_ra, P_x},
      files  |-> fl,
      links  |-> MkLinks(tl, tm),
      noread |-> nr,
      ioerr  |-> ie] :
        fl \in SUBSET {P_rf, P_rag, P_xk},
        tl \in LinkTargets,
        tm \in LinkTargets,
        nr \in {{}, {P_ra}},
        ie \in {{}, {P_r}}}

CountRoots == {P_r, P_rl}

\* No run of count_files on these filesystems comes near these; they stop a
\* loop that does not end on its own.
MaxStack == 6
MaxCount == 8

-----------------------------------------------------------------------------
(* The program's state while only count_files runs.                         *)

IdleApp ==
    /\ file_count_cache = << >>
    /\ queue = << >>
    /\ workers = << >>
    /\ channel = << >>
    /\ current_dir = RootPath
    /\ current_dir_count = None
    /\ items = << >>
    /\ selected = None
    /\ action_pending = None
    /\ redraw_ui = FALSE
    /\ entries = << >>
    /\ input_left = 0
    /\ pc = "none"
    /\ status = "none"
    /\ last_call = [op |-> "none"]
    /\ drain_log = NoLog

CountInit ==
    /\ fs \in CountWorlds
    /\ c_root \in CountRoots
    /\ c_stack = CountStart(c_root).stack
    /\ c_visited = CountStart(c_root).visited
    /\ c_count = CountStart(c_root).count
    /\ c_pc = "loop"
    /\ IdleApp

CountState == [stack |-> c_stack, visited |-> c_visited, count |-> c_count]

\* One iteration of the while-let loop, the directory read in any order.
CountIterate ==
    /\ c_pc = "loop"
    /\ Len(c_stack) > 0
    /\ Len(c_stack) <= MaxStack
    /\ c_count <= MaxCount
    /\ \E ord \in CountOrders(fs, CountState) :
       \E st \in {CountStep(fs, CountState, ord)} :
         /\ c_stack' = st.stack
         /\ c_visited' = st.visited
         /\ c_count' = st.count
    /\ UNCHANGED <<fs, c_root, c_pc>>
    /\ UNCHANGED appVars

\* dirs_to_visit.pop() returns None: Ok(count).
CountReturn ==
    /\ c_pc = "loop"
    /\ Len(c_stack) = 0
    /\ c_pc' = "done"
    /\ UNCHANGED <<fs, c_root, c_stack, c_visited, c_count>>
    /\ UNCHANGED appVars

CountNext == CountIterate \/ CountReturn

\* count_files runs on a thread that keeps running.
CountSpec == CountInit /\ [][CountNext]_vars /\ WF_vars(CountNext)

-----------------------------------------------------------------------------
(* The filesystems the browser is started on, with home_dir = /r:           *)
(*   a tree   /r/a/, /r/B/$d/g                                              *)
(*   a tie    /r/a/ and /r/A/, both empty                                   *)
(*   /r unreadable                                                          *)
(*   /r/a/ with an entry that cannot be read                                *)
(*   a pair   /r/a/, /r/c                                                   *)
(*   /r/a/ alone                                                            *)
(*   files    /r/c, /r/f, /r/g                                              *)
(*   twins    /r/a/ and /r/B/, both empty                                   *)
(*   a chain  /r/a/B/                                                       *)

MkWorld(dirs, files, noread, ioerr) ==
    [dirs |-> dirs \cup {RootPath}, files |-> files, links |-> << >>,
     noread |-> noread, ioerr |-> ioerr]

P_rB == <<Nm_r, Nm_B>>
P_rA == <<Nm_r, Nm_A>>
P_rBd == <<Nm_r, Nm_B, Nm_d>>
P_rc == <<Nm_r, Nm_c>>
P_raf == <<Nm_r, Nm_a, Nm_f>>
P_rBdg == <<Nm_r, Nm_B, Nm_d, Nm_g>>

TreeWorld == MkWorld({P_r, P_ra, P_rB, P_rBd}, {P_rBdg}, {}, {})
TieWorld == MkWorld({P_r, P_ra, P_rA}, {}, {}, {})
NoReadWorld == MkWorld({P_r}, {P_rc}, {P_r}, {})
IoErrWorld == MkWorld({P_r, P_ra}, {P_raf}, {}, {P_ra})

PairWorld == MkWorld({P_r, P_ra}, {P_rc}, {}, {})

LoneWorld == MkWorld({P_r, P_ra}, {}, {}, {})

P_rg == <<Nm_r, Nm_g>>

FilesWorld == MkWorld({P_r}, {P_rc, P_rf, P_rg}, {}, {})

TwinWorld == MkWorld({P_r, P_ra, P_rB}, {}, {}, {})

P_raB == <<Nm_r, Nm_a, Nm_B>>

ChainWorld == MkWorld({P_r, P_ra, P_raB}, {}, {}, {})

\* The input of a run: the terminal delivers at most MaxEvents of the key and
\* mouse events the program acts on (q, Up, Down, Enter, h, a left click), each
\* of any kind and at any moment; after the last of them event::poll finds
\* nothing, or events the program ignores.
MaxEvents == 3

\* The machines the browser is started on and the input it is given: a
\* filesystem, num_cpus::get(), the number of worker threads of ThreadPool::new
\* (main.rs 63), and the number of events of the input.
Machine(f, n, e) == [fs |-> f, cpus |-> n, events |-> e]

\* The two filesystems of two empty directories side by side (tie, twins) get
\* one event less than the others; the two with no directory to enter (files,
\* unreadable home) get more.
AppWorlds ==
    {Machine(TreeWorld, 1, MaxEvents), Machine(ChainWorld, 1, MaxEvents),
     Machine(PairWorld, 2, MaxEvents), Machine(IoErrWorld, 1, MaxEvents),
     Machine(FilesWorld, 2, MaxEvents + 1), Machine(NoReadWorld, 2, MaxEvents + 3),
     Machine(TieWorld, 1, MaxEvents - 1), Machine(TwinWorld, 1, MaxEvents - 1)}

\* The rows of the table area a click can land on are 0..MaxClickRow.
MaxClickRow == 2

\* The widths of the terminal at a draw: under two columns, two, and more.
TermWidths == {1, 2, 80}

Idle == [pc |-> "idle", path |-> RootPath, count |-> 0, stack |-> << >>, visited |-> {}]

\* What the main thread is doing or did last: the refresh_items call (op) it is
\* in or made last, the jobs that call has submitted so far, and whether the
\* latest pass through the top of the loop re-sorted the listing.
Call(op, jobs, resorted) == [op |-> op, jobs |-> jobs, resorted |-> resorted]

IdleCount ==
    /\ c_root = RootPath
    /\ c_stack = << >>
    /\ c_visited = {}
    /\ c_count = 0
    /\ c_pc = "none"

\* App::new(start_dir) with the App built (main.rs 61-84) and refresh_items
\* about to run on it (main.rs 85); the pool's threads wait for jobs.
InitOn(m) ==
    /\ fs = m.fs
    /\ workers = [w \in 1..m.cpus |-> Idle]
    /\ current_dir = home_dir
    /\ current_dir_count = None
    /\ items = << >>
    /\ entries = << >>
    /\ selected = None
    /\ action_pending = None
    /\ file_count_cache = << >>
    /\ queue = << >>
    /\ channel = << >>
    /\ redraw_ui = TRUE
    /\ input_left = m.events
    /\ pc = "refresh_current"
    /\ status = "running"
    /\ last_call = Call("new", << >>, FALSE)
    /\ drain_log = NoLog
    /\ IdleCount

Init == \E m \in AppWorlds : InitOn(m)

-----------------------------------------------------------------------------
(* The worker threads: the closure given to thread_pool.execute             *)
(* (main.rs 108-116, 131-139, 187-195).                                     *)

\* A worker takes the next job and enters count_files(&path) (main.rs 265-271).
\* The idle workers are alike: the one with the least number is the one that
\* takes it.
JobStart(w) ==
    /\ status = "running"
    /\ workers[w].pc = "idle"
    /\ \A v \in DOMAIN workers : workers[v].pc = "idle" => w <= v
    /\ Len(queue) > 0
    /\ \E st \in {CountStart(Head(queue))} :
         workers' = [workers EXCEPT ![w] =
                        [pc |-> "counting", path |-> Head(queue), count |-> st.count,
                         stack |-> st.stack, visited |-> st.visited]]
    /\ queue' = Tail(queue)
    /\ UNCHANGED <<fs, file_count_cache, channel>>
    /\ UNCHANGED mainVars
    /\ UNCHANGED countVars

\* One iteration of count_files' while-let loop (main.rs 273-307) on the
\* filesystem as it is now; with the last one count_files returns Ok(count),
\* which unwrap_or(0) leaves.
JobScan(w) ==
    /\ status = "running"
    /\ workers[w].pc = "counting"
    /\ \E st \in {[stack |-> workers[w].stack, visited |-> workers[w].visited,
                   count |-> workers[w].count]} :
       \E ord \in CountOrders(fs, st) :
       \E st2 \in {CountStep(fs, st, ord)} :
         workers' = [workers EXCEPT ![w] =
                        IF Len(st2.stack) = 0
                        THEN [pc |-> "computed", path |-> workers[w].path,
                              count |-> st2.count, stack |-> << >>, visited |-> {}]
                        ELSE [pc |-> "counting", path |-> workers[w].path,
                              count |-> st2.count, stack |-> st2.stack,
                              visited |-> st2.visited]]
    /\ UNCHANGED <<fs, file_count_cache, queue, channel>>
    /\ UNCHANGED mainVars
    /\ UNCHANGED countVars

\* JobStart and every JobScan of the job in one step: a worker takes the next
\* job and runs count_files(&path).unwrap_or(0) to its end. On a filesystem
\* that nothing writes to, the traversal reads what no step changes and writes
\* the thread's own locals.
JobCount(w) ==
    /\ status = "running"
    /\ workers[w].pc = "idle"
    /\ \A v \in DOMAIN workers : workers[v].pc = "idle" => w <= v
    /\ Len(queue) > 0
    /\ \E n \in count_files(fs, Head(queue)) :
         workers' = [workers EXCEPT ![w] =
                        [pc |-> "computed", path |-> Head(queue), count |-> n,
                         stack |-> << >>, visited |-> {}]]
    /\ queue' = Tail(queue)
    /\ UNCHANGED <<fs, file_count_cache, channel>>
    /\ UNCHANGED mainVars
    /\ UNCHANGED countVars

\* cache.insert(path.clone(), count)
JobInsert(w) ==
    /\ status = "running"
    /\ workers[w].pc = "computed"
    /\ file_count_cache' = CacheInsert(file_count_cache, workers[w].path, workers[w].count)
    /\ workers' = [workers EXCEPT ![w].pc = "inserted"]
    /\ UNCHANGED <<fs, queue, channel>>
    /\ UNCHANGED mainVars
    /\ UNCHANGED countVars

\* The send done before the insert, the insert then skipped.
JobSendFirst(w) ==
    /\ status = "running"
    /\ workers[w].pc = "computed"
    /\ channel' = Append(channel, [path |-> workers[w].path, count |-> workers[w].count])
    /\ workers' = [workers EXCEPT ![w] = Idle]
    /\ UNCHANGED <<fs, file_count_cache, queue>>
    /\ UNCHANGED mainVars
    /\ UNCHANGED countVars

\* sender.send((path, count)).unwrap_or(()); the closure returns.
JobSend(w) ==
    /\ status = "running"
    /\ workers[w].pc = "inserted"
    /\ channel' = Append(channel, [path |-> workers[w].path, count |-> workers[w].count])
    /\ workers' = [workers EXCEPT ![w] = Idle]
    /\ UNCHANGED <<fs, file_count_cache, queue>>
    /\ UNCHANGED mainVars
    /\ UNCHANGED countVars

-----------------------------------------------------------------------------
(* The main thread (main.rs 85, 342-641). It shares the cache, the pool's   *)
(* queue and the channel with the workers, and the filesystem with them and *)
(* with other processes; each of its steps below holds one access to the    *)
(* cache (a lookup), to the filesystem (read_dir) or to the channel (the    *)
(* try_recv that finds it empty and ends the drain), together with what the *)
(* thread does on its own data around it. A thread_pool.execute appends to  *)
(* the queue whose head the workers take: it is placed with the lookup in   *)
(* front of it.                                                             *)

\* The count of a message never written into the listing.
MergeItemsDropped(its, path, count) == its

\* The first entry with this path gets the count (main.rs 355-358).
MergeItems(its, path, count) ==
    Bind({i \in 1..Len(its) : its[i].path = path}, LAMBDA hit :
        IF hit = {} THEN its
        ELSE [its EXCEPT ![CHOOSE i \in hit : \A k \in hit : i <= k].file_count = count])

\* RecvCount with the test path == app.current_dir dropped.
RecvCountAnyPath(st, cur, m) ==
    [items             |-> MergeItems(st.items, m.path, m.count),
     current_dir_count |-> m.count,
     counts_updated    |-> TRUE]

\* One turn of `while let Ok((path, count)) = app.file_count_rx.try_recv()`
\* (main.rs 348-359) on st = the listing, current_dir_count and counts_updated.
RecvCount(st, cur, m) ==
    [items             |-> MergeItems(st.items, m.path, m.count),
     current_dir_count |-> IF m.path = cur THEN m.count ELSE st.current_dir_count,
     counts_updated    |-> (st.counts_updated \/ m.path = cur
                              \/ \E i \in 1..Len(st.items) : st.items[i].path = m.path)]

\* The whole while loop: the messages of ch from position i on, in order.
RECURSIVE DrainFrom(_, _, _, _)
DrainFrom(st, cur, ch, i) ==
    IF i > Len(ch) THEN st
    ELSE Bind(RecvCount(st, cur, ch[i]), LAMBDA st2 : DrainFrom(st2, cur, ch, i + 1))

\* The loop body down to the draw (main.rs 347-405): counts_updated starts
\* false, the channel is drained, the listing re-sorted when a count came in.
Drained(its, cdc, cur, ch) ==
    Bind(DrainFrom([items |-> its, current_dir_count |-> cdc, counts_updated |-> FALSE],
                   cur, ch, 1), LAMBDA st :
        [items             |-> IF st.counts_updated
                               THEN ResortItems(st.items, IncludeBack(cur))
                               ELSE st.items,
         current_dir_count |-> st.current_dir_count,
         counts_updated    |-> st.counts_updated])

\* What the listing shows a count for: current_dir and the rows (main.rs
\* 351-358).
ShownPaths(its, cur) == {cur} \cup {its[i].path : i \in 1..Len(its)}

\* The log after a drain of ch: a message is written into what is shown when
\* its path is current_dir or a row's, and dropped when not.
DrainLog(log, its, cur, ch) ==
    [merged  |-> log.merged \cup {ch[i].path : i \in {j \in 1..Len(ch) :
                                     ch[j].path \in ShownPaths(its, cur)}},
     dropped |-> log.dropped \cup {ch[i].path : i \in {j \in 1..Len(ch) :
                                      ch[j].path \notin ShownPaths(its, cur)}}]

\* terminal.draw(..)? on a terminal of this width (main.rs 409-545): the
\* backend's io error is returned from main; size.width - 2 (main.rs 413)
\* overflows under two columns, a panic in a debug build and a wrap in a
\* release build; on two columns block_width is 0 and
\* calculate_wrapped_height divides by it (main.rs 317), the text being a
\* line that is not empty.
DrawOutcomes(width) ==
    {"draw_error"} \cup (IF width < 2 THEN {"panic", "ok"}
                         ELSE IF width = 2 THEN {"panic"} ELSE {"ok"})

\* The guard of Action::EnterDirectory with the is_dir test dropped.
CanEnterAnyEntry(its, index) == UsizeLt(index, Len(its))

\* index < app.items.len() and selected_entry.is_dir (main.rs 553-555).
CanEnter(its, index) == UsizeLt(index, Len(its)) /\ its[index + 1].is_dir

\* main returns or panics: the process is gone, and the App, the pool and the
\* channel with it.
Exit(reason) ==
    /\ status' = reason
    /\ pc' = "exit"
    /\ file_count_cache' = << >>
    /\ queue' = << >>
    /\ workers' = [w \in DOMAIN workers |-> Idle]
    /\ channel' = << >>
    /\ current_dir' = home_dir
    /\ current_dir_count' = None
    /\ items' = << >>
    /\ entries' = << >>
    /\ input_left' = 0
    /\ selected' = None
    /\ action_pending' = None
    /\ redraw_ui' = FALSE
    /\ last_call' = Call("exit", << >>, FALSE)
    /\ drain_log' = NoLog
    /\ UNCHANGED fs
    /\ UNCHANGED countVars

\* GoTo with the jobs still queued dropped when the directory changes.
GoToCancelling(dir, op, resorted) ==
    /\ current_dir' = dir
    /\ last_call' = Call(op, << >>, resorted)
    /\ pc' = "refresh_current"
    /\ queue' = << >>

\* app.current_dir = dir; app.refresh_items() is called (main.rs 556-557,
\* 595-596).
GoTo(dir, op, resorted) ==
    /\ current_dir' = dir
    /\ last_call' = Call(op, << >>, resorted)
    /\ pc' = "refresh_current"
    /\ queue' = queue

\* refresh_items, main.rs 91-117: clear, the selection, the lookup of
\* current_dir and the job for it.
RefreshCurrent ==
    /\ status = "running"
    /\ pc = "refresh_current"
    /\ items' = << >>
    /\ selected' = IF selected = None THEN 0 ELSE selected
    /\ \E cdc \in {CacheGet(file_count_cache, current_dir)} :
         /\ current_dir_count' = cdc
         /\ queue' = Execute(queue, cdc, current_dir)
         /\ last_call' = [last_call EXCEPT !.jobs = Execute(@, cdc, current_dir)]
    /\ pc' = IF IncludeBack(current_dir) /\ HasParent(current_dir)
             THEN "refresh_parent" ELSE "refresh_read"
    /\ UNCHANGED <<fs, file_count_cache, workers, channel, current_dir, action_pending,
                   status, redraw_ui, entries, input_left, drain_log>>
    /\ UNCHANGED countVars

\* refresh_items, main.rs 119-149: the lookup of the parent, the job for it and
\* the parent entry.
RefreshParent ==
    /\ status = "running"
    /\ pc = "refresh_parent"
    /\ \E parent_count \in {CacheGet(file_count_cache, PathParent(current_dir))} :
         /\ queue' = Execute(queue, parent_count, PathParent(current_dir))
         /\ last_call' = [last_call EXCEPT
                             !.jobs = Execute(@, parent_count, PathParent(current_dir))]
         /\ items' = Append(items, DirEntry(BackName, PathParent(current_dir), TRUE,
                                            parent_count))
    /\ pc' = "refresh_read"
    /\ UNCHANGED <<fs, file_count_cache, workers, channel, current_dir, current_dir_count,
                   selected, action_pending, status, redraw_ui, entries, input_left, drain_log>>
    /\ UNCHANGED countVars

\* refresh_items, main.rs 151-154: fs::read_dir and collect, whose Err the `?`
\* returns; a directory that cannot be opened is an empty list.
RefreshRead ==
    /\ status = "running"
    /\ pc = "refresh_read"
    /\ \E rd \in {read_dir(fs, current_dir)} :
         IF rd.ok /\ rd.entry_err
         THEN Exit("refresh_error")
         ELSE /\ \E ord \in ReadOrders(fs, current_dir) : entries' = ord
              /\ pc' = IF rd.ok /\ rd.names # {} THEN "refresh_entry" ELSE "refresh_submit"
              /\ UNCHANGED <<fs, file_count_cache, queue, workers, channel, current_dir,
                             current_dir_count, items, selected, action_pending, status,
                             redraw_ui, last_call, input_left, drain_log>>
              /\ UNCHANGED countVars

\* refresh_items, main.rs 156-177: one turn of `for entry in entries`.
RefreshEntry ==
    /\ status = "running"
    /\ pc = "refresh_entry"
    /\ items' = Append(items, ListedEntry(fs, file_count_cache, current_dir, Head(entries)))
    /\ entries' = Tail(entries)
    /\ pc' = IF Len(entries) > 1 THEN "refresh_entry" ELSE "refresh_submit"
    /\ UNCHANGED <<fs, file_count_cache, queue, workers, channel, current_dir,
                   current_dir_count, selected, action_pending, status, redraw_ui,
                   last_call, input_left, drain_log>>
    /\ UNCHANGED countVars

\* refresh_items, main.rs 179-239: the jobs for the rows whose lookup missed,
\* the sort, Ok(()); the caller sets redraw_ui (main.rs 342, 558, 597) and goes
\* on: from App::new and from the h key to the top of the loop, from the
\* pending action to event::poll.
RefreshSubmit ==
    /\ status = "running"
    /\ pc = "refresh_submit"
    /\ queue' = queue \o ItemJobs(items)
    /\ last_call' = [last_call EXCEPT !.jobs = @ \o ItemJobs(items)]
    /\ items' = SortItems(items, IncludeBack(current_dir))
    /\ redraw_ui' = TRUE
    /\ pc' = IF last_call.op = "enter" THEN "input" ELSE "tick"
    /\ UNCHANGED <<fs, file_count_cache, workers, channel, current_dir, current_dir_count,
                   selected, action_pending, status, entries, input_left, drain_log>>
    /\ UNCHANGED countVars

\* fn refresh_items (main.rs 90-240), step by step.
refresh_items ==
    \/ RefreshCurrent
    \/ RefreshParent
    \/ RefreshRead
    \/ RefreshEntry
    \/ RefreshSubmit

\* Tick with the pending action taken only when it navigates.
TickKeepsPending ==
    /\ status = "running"
    /\ pc = "tick"
    /\ \E d \in {Drained(items, current_dir_count, current_dir, channel)} :
       \E out \in (IF redraw_ui \/ d.counts_updated
                   THEN UNION {DrawOutcomes(width) : width \in TermWidths}
                   ELSE {"ok"}) :
         IF out # "ok"
         THEN Exit(out)
         ELSE /\ items' = d.items
              /\ current_dir_count' = d.current_dir_count
              /\ channel' = << >>
              /\ redraw_ui' = FALSE
              /\ drain_log' = DrainLog(drain_log, items, current_dir, channel)
              /\ UNCHANGED <<fs, file_count_cache, workers, selected, status, entries, input_left>>
              /\ UNCHANGED countVars
              /\ IF action_pending # None /\ CanEnter(d.items, action_pending)
                 THEN /\ GoTo(d.items[action_pending + 1].path, "enter", d.counts_updated)
                      /\ action_pending' = None
                 ELSE /\ last_call' = Call(IF action_pending # None
                                           THEN "enter_noop" ELSE "none",
                                           << >>, d.counts_updated)
                      /\ pc' = "input"
                      /\ UNCHANGED <<queue, current_dir, action_pending>>

\* One iteration of the loop from its top to the pending action (main.rs
\* 343-563): the drain, which ends at the try_recv that finds the channel
\* empty, the re-sort, the draw when redraw_ui is set, and `if let Some(action)
\* = app.action_pending.take()`, which on a directory row sets current_dir and
\* calls refresh_items.
Tick ==
    /\ status = "running"
    /\ pc = "tick"
    /\ \E d \in {Drained(items, current_dir_count, current_dir, channel)} :
       \E out \in (IF redraw_ui \/ d.counts_updated
                   THEN UNION {DrawOutcomes(width) : width \in TermWidths}
                   ELSE {"ok"}) :
         IF out # "ok"
         THEN Exit(out)
         ELSE /\ items' = d.items
              /\ current_dir_count' = d.current_dir_count
              /\ channel' = << >>
              /\ redraw_ui' = FALSE
              /\ action_pending' = None
              /\ drain_log' = DrainLog(drain_log, items, current_dir, channel)
              /\ UNCHANGED <<fs, file_count_cache, workers, selected, status, entries, input_left>>
              /\ UNCHANGED countVars
              /\ IF action_pending # None /\ CanEnter(d.items, action_pending)
                 THEN GoTo(d.items[action_pending + 1].path, "enter", d.counts_updated)
                 ELSE /\ last_call' = Call(IF action_pending # None
                                           THEN "enter_noop" ELSE "none",
                                           << >>, d.counts_updated)
                      /\ pc' = "input"
                      /\ UNCHANGED <<queue, current_dir>>

\* What every input step that touches neither the listing nor the pool leaves.
InputFrame ==
    /\ last_call' = Call("none", << >>, FALSE)
    /\ pc' = "tick"
    /\ UNCHANGED <<fs, file_count_cache, queue, workers, channel, current_dir,
                   current_dir_count, items, status, entries, drain_log>>
    /\ UNCHANGED countVars

\* event::poll(..)? returns Err: main returns it.
PollError ==
    /\ status = "running"
    /\ pc = "input"
    /\ Exit("poll_error")

\* event::poll returns Ok(false): no event within the 100 ms.
NoEvent ==
    /\ status = "running"
    /\ pc = "input"
    /\ UNCHANGED <<selected, action_pending, redraw_ui, input_left>>
    /\ InputFrame

\* event::read() returns Err(e): eprintln!, and the loop goes on.
ReadError ==
    /\ status = "running"
    /\ pc = "input"
    /\ UNCHANGED <<selected, action_pending, redraw_ui, input_left>>
    /\ InputFrame

\* event::poll returns Ok(true) and event::read() the next event of the input.
ReadEvent ==
    /\ status = "running"
    /\ pc = "input"
    /\ input_left > 0

\* Any other key, mouse event or event: the `_ => {}` arms.
OtherEvent ==
    /\ status = "running"
    /\ pc = "input"
    /\ UNCHANGED <<selected, action_pending, redraw_ui, input_left>>
    /\ InputFrame

\* KeyCode::Char('q'): break.
KeyQuit ==
    /\ ReadEvent
    /\ Exit("quit")

\* KeyCode::Up | KeyCode::Char('k'): app.previous(); redraw_ui = true. Where
\* items.len() - 1 overflows, a debug build panics and a release build wraps.
KeyUp ==
    /\ ReadEvent
    /\ \/ /\ previous_overflows(selected, Len(items))
          /\ Exit("panic")
       \/ /\ selected' = previous(selected, Len(items))
          /\ input_left' = input_left - 1
          /\ redraw_ui' = TRUE
          /\ UNCHANGED action_pending
          /\ InputFrame

\* KeyCode::Down | KeyCode::Char('j'): app.next(); redraw_ui = true, likewise.
KeyDown ==
    /\ ReadEvent
    /\ \/ /\ next_overflows(selected, Len(items))
          /\ Exit("panic")
       \/ /\ selected' = next(selected, Len(items))
          /\ input_left' = input_left - 1
          /\ redraw_ui' = TRUE
          /\ UNCHANGED action_pending
          /\ InputFrame

\* KeyCode::Enter: the selected index becomes the pending action.
KeyEnter ==
    /\ ReadEvent
    /\ input_left' = input_left - 1
    /\ action_pending' = IF selected # None THEN selected ELSE action_pending
    /\ UNCHANGED <<selected, redraw_ui>>
    /\ InputFrame

\* KeyCode::Char('h'): app.current_dir = app.home_dir.clone(); refresh_items()
\* is called.
KeyHome ==
    /\ ReadEvent
    /\ input_left' = input_left - 1
    /\ GoTo(home_dir, "home", FALSE)
    /\ UNCHANGED <<fs, file_count_cache, workers, channel, current_dir_count, items,
                   selected, action_pending, status, redraw_ui, entries, drain_log>>
    /\ UNCHANGED countVars

\* MouseEventKind::Down(MouseButton::Left) inside the table area, on row
\* relative_row of it.
MouseClick(relative_row) ==
    /\ ReadEvent
    /\ input_left' = input_left - 1
    /\ IF relative_row < Len(items)
       THEN /\ selected' = relative_row
            /\ action_pending' = relative_row
            /\ redraw_ui' = TRUE
       ELSE UNCHANGED <<selected, action_pending, redraw_ui>>
    /\ InputFrame

\* A step of the main thread.
MainStep ==
    \/ refresh_items
    \/ Tick
    \/ PollError
    \/ NoEvent
    \/ ReadError
    \/ OtherEvent
    \/ KeyQuit
    \/ KeyUp
    \/ KeyDown
    \/ KeyEnter
    \/ KeyHome
    \/ \E relative_row \in 0..MaxClickRow : MouseClick(relative_row)

\* A step of some worker thread.
WorkerStep == \E w \in DOMAIN workers : JobCount(w) \/ JobInsert(w) \/ JobSend(w)

\* The browser on a filesystem that nothing writes to.
Next == WorkerStep \/ MainStep

Spec == Init /\ [][Next]_vars


-----------------------------------------------------------------------------
(* What count_files is to compute, stated on the filesystem alone.          *)

EntriesOf(f, d) == {PathJoin(d, n) : n \in read_dir(f, d).names}

RECURSIVE ReachFrom(_, _)
ReachFrom(f, S) ==
    LET sub  == {q \in UNION {EntriesOf(f, d) : d \in S} : is_dir(f, q)}
        more == S \cup {canonicalize(f, q).path : q \in sub}
    IN  IF more = S THEN S ELSE ReachFrom(f, more)

\* The real directories reachable from root, through directories and links.
ReachDirs(f, root) ==
    IF is_dir(f, root) THEN ReachFrom(f, {canonicalize(f, root).path}) ELSE {}

\* The entries of those directories that are, or point at, a regular file.
FileEntries(f, root) ==
    {q \in UNION {EntriesOf(f, d) : d \in ReachDirs(f, root)} : is_file(f, q)}

\* The regular files reachable from root, each real file once.
ReachableFiles(f, root) == {canonicalize(f, q).path : q \in FileEntries(f, root)}

\* A link that resolves to a directory.
DirLinks(f) == {l \in DOMAIN f.links : is_dir(f, l)}

(* C3 as stated: count_files(root) is the number of regular files reachable  *)
(* from root, each real file counted once, symlinks to files included.       *)
C3_CountsRealFilesOnce ==
    c_pc = "done" => c_count = Cardinality(ReachableFiles(fs, c_root))

(* C3, amended: count_files(root) is the number of directory entries that    *)
(* are or point at a regular file, over the distinct real directories        *)
(* reachable from root; a directory reached by several symlink paths is      *)
(* scanned once, in whatever order the directories are read, and the result  *)
(* is the number of reachable regular files whenever no two such entries     *)
(* resolve to the same file. A directory whose listing fails midway gives    *)
(* only the entries read before the failure, so the count is then at most    *)
(* that number.                                                              *)
C3_CountsFileEntriesOnce ==
    c_pc = "done" =>
        /\ c_count \in count_files(fs, c_root)
        /\ c_count <= Cardinality(FileEntries(fs, c_root))
        /\ {d \in c_visited : is_dir(fs, d)} \subseteq ReachDirs(fs, c_root)
        /\ ReachDirs(fs, c_root) \cap fs.ioerr = {} =>
              /\ c_count = Cardinality(FileEntries(fs, c_root))
              /\ ReachDirs(fs, c_root) \subseteq c_visited
              /\ (\A q1, q2 \in FileEntries(fs, c_root) :
                      canonicalize(fs, q1) = canonicalize(fs, q2) => q1 = q2)
                    => c_count = Cardinality(ReachableFiles(fs, c_root))

\* A finished count of a tree in which a directory holding a file is reached
\* both as a real directory and through a link to it.
C3_Witness ==
    /\ c_pc = "done"
    /\ c_count > 0
    /\ \E l \in DirLinks(fs) :
         /\ PathParent(l) \in c_visited \ fs.noread
         /\ canonicalize(fs, l).path \in c_visited \ fs.noread
         /\ \E q \in fs.files : PathParent(q) = canonicalize(fs, l).path

(* C4: count_files terminates on every finite directory graph, cycles of     *)
(* directory links included, and returns Ok(count).                          *)
C4_CountTerminates == <>(c_pc = "done")

\* A finished count of a tree in which a link points at the directory that
\* holds it or at an ancestor of that directory, and was followed.
C4_Witness ==
    /\ c_pc = "done"
    /\ \E l \in DirLinks(fs) :
         /\ IsPrefix(canonicalize(fs, l).path, PathParent(l))
         /\ PathParent(l) \in c_visited \ fs.noread

-----------------------------------------------------------------------------------------------------------------------------------------------------
(* Where the main thread is.                                                *)

\* The positions inside refresh_items.
RefreshPcs ==
    {"refresh_current", "refresh_parent", "refresh_read", "refresh_entry", "refresh_submit"}

\* The main thread is between two calls of refresh_items: the listing is whole.
Shown == status = "running" /\ pc \in {"tick", "input"}

-----
(* The claims about the browser, checked under Spec.                         *)

(* C1: a job inserts (path, count) into the cache before it sends it: for    *)
(* every message in the channel, for every job about to send, and for every  *)
(* count the consumer holds (received, or read from the cache), the cache    *)
(* holds an entry for the path. (Between the assignment of current_dir and   *)
(* the lookup that follows it, current_dir_count is still the count of the   *)
(* directory left.)                                                          *)
C1_CachedBeforeSent ==
    /\ \A i \in 1..Len(channel) : channel[i].path \in DOMAIN file_count_cache
    /\ \A w \in DOMAIN workers :
         workers[w].pc = "inserted" => workers[w].path \in DOMAIN file_count_cache
    /\ (IsSome(current_dir_count) /\ pc # "refresh_current")
         => current_dir \in DOMAIN file_count_cache
    /\ \A i \in 1..Len(items) :
         IsSome(items[i].file_count) => items[i].path \in DOMAIN file_count_cache

\* A result waits in the channel, an earlier one was merged by the latest tick,
\* and a job has computed its count and not yet inserted it.
C1_Witness ==
    /\ Len(channel) > 0
    /\ last_call.resorted
    /\ \E w \in DOMAIN workers : workers[w].pc = "computed"

\* The jobs a step appends to the queue.
NewJobs ==
    IF Len(queue') > Len(queue) /\ SubSeq(queue', 1, Len(queue)) = queue
    THEN SubSeq(queue', Len(queue) + 1, Len(queue'))
    ELSE << >>

\* Every directory at or below home_dir has its count in the cache.
Complete == \A d \in fs.dirs : IsPrefix(home_dir, d) => d \in DOMAIN file_count_cache

\* All counts have resolved: the cache is complete, no job is queued or running,
\* and every lookup of a refresh under way has hit.
Settled ==
    /\ status = "running"
    /\ Complete
    /\ queue = << >>
    /\ \A w \in DOMAIN workers : workers[w].pc = "idle"
    /\ \A i \in 1..Len(items) : items[i].is_dir => IsSome(items[i].file_count)
    /\ pc \in RefreshPcs => last_call.jobs = << >>

(* C2: refresh_items submits a job for a path only when the lookup for that  *)
(* path missed. The jobs for current_dir and for the parent are submitted    *)
(* with the lookup, for a path that is not in the cache; a row gets the      *)
(* cache's count when the cache holds one, and the last loop submits a job   *)
(* exactly for the directory rows whose lookup missed; the queue changes in  *)
(* no other way than by these jobs and by a worker taking its head. So a     *)
(* refresh whose lookups all hit submits nothing, and once all counts have   *)
(* resolved no navigation submits a job again.                               *)
C2_JobsOnlyOnMiss ==
    [][status' = "running" =>
        /\ queue' # queue =>
              \/ Len(queue) > 0 /\ queue' = Tail(queue) /\ pc' = pc
              \/ NewJobs # << >> /\ pc \in {"refresh_current", "refresh_parent", "refresh_submit"}
        /\ (pc = "refresh_current" /\ pc' # pc) =>
              NewJobs = IF current_dir \in DOMAIN file_count_cache
                        THEN << >> ELSE <<current_dir>>
        /\ (pc = "refresh_parent" /\ pc' # pc) =>
              NewJobs = IF PathParent(current_dir) \in DOMAIN file_count_cache
                        THEN << >> ELSE <<PathParent(current_dir)>>
        /\ (pc = "refresh_entry" /\ Len(items') > Len(items)) =>
              LET row == items'[Len(items')]
              IN  (row.is_dir /\ row.path \in DOMAIN file_count_cache)
                      => row.file_count = file_count_cache[row.path]
        /\ (pc = "refresh_submit" /\ pc' # pc) =>
              /\ \A i \in 1..Len(NewJobs) : \E k \in 1..Len(items) :
                    /\ items[k].path = NewJobs[i]
                    /\ items[k].is_dir
                    /\ ~IsSome(items[k].file_count)
              /\ (\A k \in 1..Len(items) : items[k].is_dir => IsSome(items[k].file_count))
                    => queue' = queue
              /\ last_call'.jobs = << >> => queue' = queue
        /\ pc \in RefreshPcs =>
              last_call'.jobs = last_call.jobs \o (IF pc' # pc THEN NewJobs ELSE << >>)
        /\ Settled => (Settled' /\ queue' = << >>)
      ]_vars

\* Back home from /r/B with every count cached: the refresh has returned and
\* has submitted nothing.
C2_Witness ==
    /\ status = "running"
    /\ pc = "tick"
    /\ last_call.op = "home"
    /\ last_call.jobs = << >>
    /\ Settled
    /\ {P_r, P_ra, P_rB, P_rBd} \subseteq DOMAIN file_count_cache

\* The order of two names, case-insensitive.
NameLeq(a, b) == StrCmp(to_lowercase(a.name), to_lowercase(b.name)) # "Greater"

\* a may stand before b under the sort policy.
PolicyBefore(a, b) ==
    /\ a.is_dir \/ ~b.is_dir
    /\ a.is_dir /\ b.is_dir =>
         /\ IsSome(a.file_count) \/ ~IsSome(b.file_count)
         /\ IsSome(a.file_count) /\ IsSome(b.file_count) => a.file_count >= b.file_count
         /\ a.file_count = b.file_count => NameLeq(a, b)
    /\ ~a.is_dir /\ ~b.is_dir => NameLeq(a, b)

\* The listing without a pinned parent entry.
Unpinned(its, cur) == IF cur # home_dir /\ Len(its) > 1 THEN Tail(its) ELSE its

(* C5: after every refresh and every tick that merged a count (in every      *)
(* state in which the main thread is not inside refresh_items), the listing  *)
(* without the pinned parent entry is ordered by the sort policy:            *)
(* directories before files, known counts before unknown, known counts       *)
(* descending, ties and unknowns by case-insensitive name, files by          *)
(* case-insensitive name.                                                    *)
C5_ListingSorted ==
    Shown =>
        \A i, j \in 1..Len(Unpinned(items, current_dir)) :
            i < j => PolicyBefore(Unpinned(items, current_dir)[i],
                                  Unpinned(items, current_dir)[j])

\* The latest tick merged a count and re-sorted, and the listing holds two
\* directories with equal known counts whose names differ in lower case too.
C5_Witness ==
    /\ Shown
    /\ last_call.resorted
    /\ last_call.op = "none"
    /\ \E i, j \in 1..Len(Unpinned(items, current_dir)) :
         /\ i < j
         /\ Unpinned(items, current_dir)[i].is_dir
         /\ Unpinned(items, current_dir)[j].is_dir
         /\ IsSome(Unpinned(items, current_dir)[i].file_count)
         /\ Unpinned(items, current_dir)[i].file_count
              = Unpinned(items, current_dir)[j].file_count
         /\ to_lowercase(Unpinned(items, current_dir)[i].name)
              # to_lowercase(Unpinned(items, current_dir)[j].name)

(* C6: between two calls of refresh_items, away from home the first row is   *)
(* the parent entry (the path of                                             *)
(* current_dir's parent, a directory) and stays first after every re-sort,   *)
(* whatever its count; at home no row is a parent entry.                     *)
C6_ParentPinned ==
    Shown =>
        IF current_dir # home_dir
        THEN /\ Len(items) >= 1
             /\ items[1].name = BackName
             /\ items[1].path = PathParent(current_dir)
             /\ items[1].is_dir
        ELSE \A i \in 1..Len(items) :
                items[i].name # BackName /\ items[i].path # PathParent(home_dir)

\* The latest tick re-sorted a listing in which a directory would sort before
\* the parent entry.
C6_Witness ==
    /\ last_call.resorted
    /\ last_call.op = "none"
    /\ current_dir # home_dir
    /\ \E i \in 2..Len(items) : items[i].is_dir /\ EntryCmp(items[i], items[1]) = "Less"

(* C7: current_dir is home_dir or a path below it, whatever was entered,     *)
(* clicked or pressed.                                                       *)
C7_NeverAboveHome == IsPrefix(home_dir, current_dir)

\* The parent entry of a directory right below home was entered.
C7_Witness ==
    /\ last_call.op = "enter"
    /\ current_dir = home_dir

(* C8: processing EnterDirectory(index) on a directory row makes that row's  *)
(* path the current directory and rebuilds the listing for it; on a file row *)
(* or an index past the listing it changes nothing and raises no error.      *)
C8_EnterIffDirectory ==
    [][/\ (pc = "tick" /\ status' = "running" /\ pc' # pc /\ action_pending # None) =>
            LET L == Drained(items, current_dir_count, current_dir, channel).items
                index == action_pending
            IN  IF UsizeLt(index, Len(L)) /\ L[index + 1].is_dir
                THEN /\ current_dir' = L[index + 1].path
                     /\ current_dir' # current_dir
                     /\ pc' = "refresh_current"
                ELSE /\ current_dir' = current_dir
                     /\ items' = L
                     /\ selected' = selected
                     /\ queue' = queue
                     /\ pc' = "input"
       /\ (last_call.op = "enter" /\ pc \in RefreshPcs) =>
            /\ status' = "running"
            /\ current_dir' = current_dir
            /\ pc' = "input" =>
                  {items'[i].path : i \in 1..Len(items')}
                      = EntriesOf(fs, current_dir)
                            \cup (IF current_dir # home_dir
                                  THEN {PathParent(current_dir)} ELSE {})
      ]_vars

(* C9: refresh_items never fails because of a filesystem read failure: no    *)
(* call of it returns an error to its caller.                                *)
C9_RefreshNeverFails == status # "refresh_error"

(* C10: the main loop ends only on the quit key: the process is running or   *)
(* has quit, and never ended on an error or a panic.                         *)
C10_OnlyQuitEnds == status \in {"running", "quit"}

-----------------------------------------------------------------------------
(* Moving the selection (App::next, App::previous; main.rs 243-262).        *)

\* C11: on an empty listing the Up and Down keys do nothing: the step does not
\* end the program and leaves the selection as it was.
C11_EmptyListingNoOp ==
    [][(Len(items) = 0 /\ (KeyUp \/ KeyDown))
          => (status' = "running" /\ selected' = selected)]_vars

\* C12: when a refresh_items that left a listing with rows has returned (at
\* start, on entering a directory, on going home) the selected index is one of
\* its rows.
C12_SelectionClamped ==
    (Shown /\ last_call.op \in {"new", "enter", "home"} /\ Len(items) > 0)
        => (selected # None /\ UsizeLt(selected, Len(items)))

\* C13: on a listing of L >= 1 rows, for every row i < L next gives (i + 1) mod L
\* and previous gives (i - 1) mod L, neither overflowing; and with row i < L
\* selected the Down key selects row (i + 1) mod L and the Up key row
\* (i - 1) mod L, and the program runs on.
C13_CyclicSelection ==
    [][/\ Len(items) >= 1
          => \A i \in 0..(Len(items) - 1) :
                /\ ~next_overflows(i, Len(items))
                /\ ~previous_overflows(i, Len(items))
                /\ next(i, Len(items)) = (i + 1) % Len(items)
                /\ previous(i, Len(items)) = (i + Len(items) - 1) % Len(items)
       /\ (Len(items) >= 1 /\ selected # None /\ UsizeLt(selected, Len(items)))
          => /\ KeyDown => (status' = "running"
                              /\ selected' = (selected + 1) % Len(items))
             /\ KeyUp => (status' = "running"
                              /\ selected' = (selected + Len(items) - 1) % Len(items))]_vars

\* An Up or Down key has just put the selection on the last of three rows:
\* (i + 1) mod 3 and (i - 1) mod 3 are different rows for every i.
C13_Witness ==
    /\ status = "running"
    /\ pc = "tick"
    /\ last_call.op = "none"
    /\ redraw_ui
    /\ action_pending = None
    /\ Len(items) = 3
    /\ selected = 2

-----------------------------------------------------------------------------
(* The browser on a filesystem that another process writes to while it      *)
(* runs: count_files and read_dir read the live filesystem, so two jobs for *)
(* one path can return different counts.                                    *)

\* Another process creates the regular file /r/a/f.
CreateFile ==
    /\ status = "running"
    /\ P_raf \notin fs.files
    /\ fs' = [fs EXCEPT !.files = @ \cup {P_raf}]
    /\ UNCHANGED <<file_count_cache, queue, workers, channel>>
    /\ UNCHANGED mainVars
    /\ UNCHANGED countVars

\* Started on /r/a/ with two worker threads.
LiveInit == InitOn(Machine(LoneWorld, 2, MaxEvents))

\* A step of some worker thread, the traversal of count_files one directory at
\* a time.
LiveWorkerStep ==
    \E w \in DOMAIN workers : JobStart(w) \/ JobScan(w) \/ JobInsert(w) \/ JobSend(w)

\* A step of the main thread of a user who presses no key but h.
LiveMainStep ==
    \/ RefreshCurrent
    \/ RefreshRead
    \/ RefreshEntry
    \/ RefreshSubmit
    \/ Tick
    \/ NoEvent
    \/ KeyHome

LiveNext == LiveWorkerStep \/ LiveMainStep \/ CreateFile

LiveSpec == LiveInit /\ [][LiveNext]_vars

\* No job queued or running, no result waiting in the channel, and the main
\* thread not inside refresh_items.
Quiescent ==
    /\ Shown
    /\ queue = << >>
    /\ \A w \in DOMAIN workers : workers[w].pc = "idle"
    /\ channel = << >>

\* C14: in every quiescent state the count shown for current_dir and the count
\* of every directory row are the cache's values for those paths, also when
\* two jobs for one path returned different counts.
C14_QuiescentShowsCache ==
    Quiescent =>
        /\ current_dir_count = CacheGet(file_count_cache, current_dir)
        /\ \A i \in 1..Len(items) :
             items[i].is_dir
                 => items[i].file_count = CacheGet(file_count_cache, items[i].path)

-----------------------------------------------------------------------------
(* Jobs for one path at the same time.                                      *)

\* The jobs for path p that are queued or running.
JobsIn(q, ws, p) ==
    Cardinality({i \in 1..Len(q) : q[i] = p})
        + Cardinality({w \in DOMAIN ws : ws[w].pc # "idle" /\ ws[w].path = p})

JobsInPool(p) == JobsIn(queue, workers, p)

\* C15: a refresh submits a job for every path whose lookup missed (current_dir,
\* the parent, each directory row), whether or not a job for that path is
\* already queued or running: each such step puts one more job for the path in
\* the pool, so two refreshes put two jobs for one path in the pool at once.
C15_EveryMissSubmits ==
    [][status' = "running" =>
        /\ (pc = "refresh_current" /\ pc' # pc
                /\ CacheGet(file_count_cache, current_dir) = None)
              => JobsIn(queue', workers', current_dir) = JobsInPool(current_dir) + 1
        /\ (pc = "refresh_parent" /\ pc' # pc
                /\ CacheGet(file_count_cache, PathParent(current_dir)) = None)
              => JobsIn(queue', workers', PathParent(current_dir))
                     = JobsInPool(PathParent(current_dir)) + 1
        /\ (pc = "refresh_submit" /\ pc' # pc)
              => \A k \in 1..Len(items) :
                   (items[k].is_dir /\ items[k].file_count = None)
                       => JobsIn(queue', workers', items[k].path)
                              > JobsInPool(items[k].path)
      ]_vars

\* The h key has just refreshed /r while the job for /r/a of the first refresh
\* is still running: a second job for /r/a is queued. No single refresh submits
\* /r/a twice.
C15_Witness ==
    /\ status = "running"
    /\ last_call.op = "home"
    /\ \E j \in 1..Len(last_call.jobs) : last_call.jobs[j] = P_ra
    /\ \E w \in DOMAIN workers : workers[w].pc = "computed" /\ workers[w].path = P_ra
    /\ JobsInPool(P_ra) = 2

-----------------------------------------------------------------------------
(* The browser with its threads scheduled fairly: the pool's workers keep   *)
(* running while there is a job to run or to finish, and the main thread    *)
(* keeps going round its loop (event::poll returns after 100 ms at most).   *)

\* The machines the fair runs are checked on.
FairWorlds ==
    {Machine(PairWorld, 1, MaxEvents), Machine(NoReadWorld, 2, MaxEvents + 1),
     Machine(IoErrWorld, 1, MaxEvents - 1), Machine(ChainWorld, 1, MaxEvents)}

FairInit == \E m \in FairWorlds : InitOn(m)

FairSpec == FairInit /\ [][Next]_vars /\ WF_vars(WorkerStep) /\ WF_vars(MainStep)

\* No job is queued and no worker has one.
PoolEmpty ==
    /\ queue = << >>
    /\ \A w \in DOMAIN workers : workers[w].pc = "idle"

\* C16: while the program runs no job is cancelled: a queued job leaves the
\* queue only from its head, taken by a worker; a worker gives up its job only
\* by sending its result after the insert; and whatever the events of the run
\* are and whenever they come, with more jobs than workers too, the pool ends
\* up empty: every job submitted is run, inserted and sent.
C16_EveryJobCompletes ==
    /\ [][status' = "running"
            => /\ \/ /\ Len(queue') >= Len(queue)
                     /\ SubSeq(queue', 1, Len(queue)) = queue
                  \/ /\ queue' = Tail(queue)
                     /\ \E w \in DOMAIN workers :
                          /\ workers[w].pc = "idle"
                          /\ workers'[w].pc = "computed"
                          /\ workers'[w].path = Head(queue)
               /\ \A w \in DOMAIN workers :
                    (workers[w].pc # "idle" /\ workers'[w].pc = "idle")
                        => /\ workers[w].pc = "inserted"
                           /\ IsSome(CacheGet(file_count_cache, workers[w].path))
                           /\ channel' = Append(channel, [path  |-> workers[w].path,
                                                          count |-> workers[w].count])]_vars
    /\ <>[](status # "running" \/ PoolEmpty)

\* One worker, busy, with two more jobs waiting, the first of them submitted
\* before the user entered the directory now shown.
C16_Witness ==
    /\ Shown
    /\ Len(workers) = 1
    /\ workers[1].pc # "idle"
    /\ Len(queue) >= 2
    /\ current_dir # home_dir
    /\ last_call.op = "enter"
    /\ Len(queue) > Len(last_call.jobs)

-----------------------------------------------------------------------------
(* Merging the results of the channel into what is shown (main.rs 347-405). *)

\* The position in ch of the last message for path p, 0 when there is none.
LastFor(ch, p) ==
    IF \E i \in 1..Len(ch) : ch[i].path = p
    THEN CHOOSE i \in 1..Len(ch) :
             ch[i].path = p /\ \A k \in 1..Len(ch) : ch[k].path = p => k <= i
    ELSE 0

\* The count a tick leaves for path p that showed old before it.
MergedCount(ch, p, old) == IF LastFor(ch, p) = 0 THEN old ELSE ch[LastFor(ch, p)].count

\* Some message of ch is for current_dir or for a listed entry.
SomeMatch(ch) ==
    \E i \in 1..Len(ch) :
        ch[i].path = current_dir \/ \E k \in 1..Len(items) : items[k].path = ch[i].path

\* C17: a tick that enters no directory merges each message by its path:
\* current_dir_count changes only by a message for current_dir, an entry's
\* file_count only by a message for that entry's path, every other field of
\* every entry, current_dir and the selection stay, and when no message is for
\* current_dir or a listed entry nothing changes and the listing is not
\* re-sorted.
C17_MergeByPath ==
    [][(pc = "tick" /\ pc' = "input" /\ status' = "running"
            /\ last_call'.op \in {"none", "enter_noop"})
          => /\ current_dir' = current_dir
             /\ selected' = selected
             /\ current_dir_count' = MergedCount(channel, current_dir, current_dir_count)
             /\ Len(items') = Len(items)
             /\ \A k \in 1..Len(items) : \E k2 \in 1..Len(items') :
                  items'[k2] = [items[k] EXCEPT
                                   !.file_count = MergedCount(channel, items[k].path, @)]
             /\ last_call'.resorted = SomeMatch(channel)
             /\ ~SomeMatch(channel)
                   => (items' = items /\ current_dir_count' = current_dir_count)]_vars

\* A tick has just merged a count into a row and re-sorted, with no message
\* for current_dir, whose count is still unknown.
C17_Witness ==
    /\ status = "running"
    /\ pc = "input"
    /\ last_call.op = "none"
    /\ last_call.resorted
    /\ current_dir_count = None
    /\ \E k \in 1..Len(items) : IsSome(items[k].file_count)

\* A message for a path that is neither current_dir nor listed waits in the
\* channel at the top of the loop.
C17_StrayMessage ==
    /\ status = "running"
    /\ pc = "tick"
    /\ Len(channel) > 0
    /\ ~SomeMatch(channel)

-----------------------------------------------------------------------------
(* The pending action (main.rs 550, 590, 624).                              *)

\* C18: every pass through the top half of the loop takes the pending action,
\* whether it navigates or not, and an input step sets a pending action only
\* when none is waiting.
C18_PendingTakenNextTick ==
    [][/\ (pc = "tick" /\ pc' # "tick") => action_pending' = None
       /\ (pc = "input" /\ action_pending' # action_pending) => action_pending = None]_vars

\* A tick has just taken a pending action that did not navigate: Enter on a
\* file row.
C18_Witness ==
    /\ status = "running"
    /\ pc = "input"
    /\ last_call.op = "enter_noop"
    /\ action_pending = None
    /\ selected # None
    /\ UsizeLt(selected, Len(items))
    /\ ~items[selected + 1].is_dir

-----------------------------------------------------------------------------
(* The cache (main.rs 46, 100, 112, 123, 166).                              *)

\* C19: while the program runs no step removes a path from the cache.
C19_CacheEntriesStay ==
    [][status' = "running"
          => DOMAIN file_count_cache \subseteq DOMAIN file_count_cache']_vars

\* The cache holds /r/a and two more paths while /r/B, which does not list
\* /r/a, is shown.
C19_Witness ==
    /\ status = "running"
    /\ current_dir = P_rB
    /\ P_ra \in DOMAIN file_count_cache
    /\ Cardinality(DOMAIN file_count_cache) >= 3

-----------------------------------------------------------------------------
(* Sorting again.                                                           *)

\* C20: between two calls of refresh_items, sorting the listing shown once more, with the counts as they are,
\* leaves every row where it is, rows that compare equal too.
C20_SortIdempotent ==
    Shown
        => /\ SortItems(items, IncludeBack(current_dir)) = items
           /\ ResortItems(items, IncludeBack(current_dir)) = items

\* A tick has just re-sorted a listing in which two rows compare equal.
C20_Witness ==
    /\ Shown
    /\ last_call.resorted
    /\ \E i, j \in 1..Len(items) : i < j /\ EntryCmp(items[i], items[j]) = "Equal"

-----------------------------------------------------------------------------
(* The jobs of one refresh.                                                 *)

\* C21: the jobs one call of refresh_items submits are for different paths.
C21_OneJobPerPath ==
    \A i, j \in 1..Len(last_call.jobs) :
        i # j => last_call.jobs[i] # last_call.jobs[j]

-----------------------------------------------------------------------------
(* Counts reaching the screen.                                              *)

\* The count of current_dir and of every directory row, the parent entry
\* included, is known.
AllKnown ==
    /\ IsSome(current_dir_count)
    /\ \A k \in 1..Len(items) : items[k].is_dir => IsSome(items[k].file_count)

\* C22: with the workers and the main loop scheduled fairly, the program, as
\* long as it runs, comes to show a known count for current_dir and for every
\* directory row and keeps doing so once the user has stopped navigating,
\* whatever was drained, refreshed or completed before.
C22_CountsBecomeKnown == <>[](status # "running" \/ AllKnown)

\* Every count shown is known, and one of the paths shown is a path whose
\* result no drain has written into the listing: its results were drained
\* while it was not shown, and the count shown is the one the refresh found in
\* the cache.
C22_Witness ==
    /\ Shown
    /\ AllKnown
    /\ PoolEmpty
    /\ channel = << >>
    /\ \E p \in drain_log.dropped \ drain_log.merged : p \in ShownPaths(items, current_dir)

-----------------------------------------------------------------------------
(* The pending action and the re-sort (main.rs 347-405, 549-563).           *)

\* C23: the directory a tick enters for the pending EnterDirectory(i) is the
\* entry that was at index i when the input step made the action, that is in
\* the listing as it was before this tick drained the channel and re-sorted.
C23_EntersEntryChosen ==
    [][(pc = "tick" /\ pc' = "refresh_current" /\ last_call'.op = "enter")
          => /\ UsizeLt(action_pending, Len(items))
             /\ current_dir' = items[action_pending + 1].path]_vars

-----------------------------------------------------------------------------
(* The order shown as a function of the entries and their counts.           *)

\* The rows of the listing, the pinned parent entry apart, as a set.
RowSet == {Unpinned(items, current_dir)[i] : i \in 1..Len(Unpinned(items, current_dir))}

\* C24: the order shown depends on the entries and their counts alone: the
\* same rows read or updated in any other order sort to the listing shown.
C24_OrderDeterministic ==
    Shown
        => \A s \in Perms(RowSet) : sort_by(s) = Unpinned(items, current_dir)

====
